---- MODULE Spec2Model ----
(***************************************************************************)
(* keydux: a shared key/value state store for React components.            *)
(*                                                                         *)
(*   StateManager      (SharedStateProvider)  state + subscriber lists     *)
(*   StorageAdaptor    (useStorage.ts)        prefixed, cached JSON store  *)
(*   useSharedState    (useSharedState)       the per-key consumer hook    *)
(*                                                                         *)
(* SpecSM drives the StateManager through its four public operations with  *)
(* arbitrary callbacks, SpecReentrant with callbacks that call write from  *)
(* inside a notification pass.  SpecStorage drives two StorageAdaptors     *)
(* over one backend.  SpecHook runs components that call useSharedState    *)
(* against one StateManager and one storage backend: mounts, renders,      *)
(* effect flushes, setValue, clear, unmounts and reloads; SpecDebounce     *)
(* adds the timer of useDebouncedValue.                                    *)
(***************************************************************************)
EXTENDS Integers, Sequences, FiniteSets, TLC

(***************************************************************************)
(* JavaScript values.  Every value is a record of one shape so that any    *)
(* two values can be compared: kind is the typeof-like tag, n the payload  *)
(* (the number, the boolean as 0/1, the string's length, the object's      *)
(* content) and id the identity of an object (0 for primitives).  Two      *)
(* objects are === exactly when their ids are equal.                       *)
(***************************************************************************)
Undefined == [kind |-> "undefined", n |-> 0, id |-> 0]
Null == [kind |-> "null", n |-> 0, id |-> 0]
NaN == [kind |-> "NaN", n |-> 0, id |-> 0]
False == [kind |-> "boolean", n |-> 0, id |-> 0]
True == [kind |-> "boolean", n |-> 1, id |-> 0]
Num(n) == [kind |-> "number", n |-> n, id |-> 0]
Str(len) == [kind |-> "string", n |-> len, id |-> 0]
Obj(content, id) == [kind |-> "object", n |-> content, id |-> id]

\* ToBoolean: the falsy values are undefined, null, NaN, false, 0 and ''.
Truthy(v) ==
  CASE v.kind = "undefined" -> FALSE
    [] v.kind = "null" -> FALSE
    [] v.kind = "NaN" -> FALSE
    [] v.kind = "boolean" -> v.n = 1
    [] v.kind = "number" -> v.n # 0
    [] v.kind = "string" -> v.n # 0
    [] OTHER -> TRUE

\* a || b
Or(a, b) == IF Truthy(a) THEN a ELSE b

\* typeof v === 'object' && v !== null
IsObject(v) == v.kind = "object"

\* The transform v => v + 1 on each kind of value: undefined + 1 and NaN + 1
\* are NaN, null + 1 is 1, true + 1 is 2, a string or an object is
\* concatenated with '1' ('[object Object]1' has 16 characters).
Inc(v) ==
  CASE v.kind = "undefined" -> NaN
    [] v.kind = "NaN" -> NaN
    [] v.kind = "null" -> Num(1)
    [] v.kind = "boolean" -> Num(v.n + 1)
    [] v.kind = "number" -> Num(v.n + 1)
    [] v.kind = "string" -> Str(v.n + 1)
    [] OTHER -> Str(16)

(***************************************************************************)
(* Text in the storage backend.  t is "json" for the JSON encoding of v,   *)
(* "malformed" for text JSON.parse rejects (among it the text 'undefined') *)
(* and "none" for no string at all (null or undefined).                    *)
(***************************************************************************)
NoText == [t |-> "none", v |-> Undefined]
Malformed == [t |-> "malformed", v |-> Undefined]
JSONText(v) == [t |-> "json", v |-> v]

\* JSON.stringify(value): undefined has no encoding, NaN is encoded as null,
\* an object by its content (its identity is not part of the text).
JSONstringify(value) ==
  CASE value.kind = "undefined" -> NoText
    [] value.kind = "NaN" -> JSONText(Null)
    [] value.kind = "object" -> JSONText(Obj(value.n, 0))
    [] OTHER -> JSONText(value)

\* JSON.parse(item) of well-formed text: an object comes out as a new
\* instance, with identity fresh.
JSONparse(item, fresh) ==
  IF item.v.kind = "object" THEN Obj(item.v.n, fresh) ELSE item.v

\* obj[k] on a plain object used as a dictionary: undefined when k is absent.
Get(obj, k) == IF k \in DOMAIN obj THEN obj[k] ELSE Undefined

\* obj[k] = v
Put(obj, k, v) == [x \in (DOMAIN obj) \cup {k} |-> IF x = k THEN v ELSE obj[x]]

\* The empty object literal {}.
EmptyObject == [x \in {} |-> Undefined]

(***************************************************************************)
(* Bounds and the finite universes the operations draw their inputs from.  *)
(***************************************************************************)
\* The most registrations the subscriber lists hold, all keys together.
MaxSubs == 3

Keys == {"k1", "k2"}

\* Callbacks handed to the StateManager directly: two that return normally
\* and one that throws.
Callback(name) == [owner |-> "app", name |-> name]
ThrowingCallbacks == {Callback("bad")}
Callbacks == {Callback("f"), Callback("g")} \cup ThrowingCallbacks
Throws(cb) == cb \in ThrowingCallbacks

SMValues == {Undefined, Num(0), Num(1)}

NoCallback == [owner |-> "none", name |-> "none"]

\* An operation: by is the callback passed (StateManager operations) or the
\* component acting (hook operations); value is the value written (write,
\* setValue, clear) or the value the hook returned (mount, render); fn says
\* that setValue was given the transform v => v + 1.
Op(op, key, by, value, fn) ==
  [op |-> op, key |-> key, cb |-> by, value |-> value, fn |-> fn]
NoOp == Op("init", "none", NoCallback, Undefined, FALSE)

\* Components that call useSharedState and the key they use.  Component A
\* is given either initialValue and either setting of shouldSaveToStorage,
\* and its handlers pass any of DirectValues, or the transform v => v + 1,
\* to setValue.  Component B is a second consumer of the key with fixed
\* props that sets the one value 1.
Consumers == {"A", "B"}
HookKey == "k1"
DirectValues == {Undefined, Num(0), Num(1), Obj(1, 1)}
InitialValues == {Num(0), Num(9)}
InitialValuesOf(c) == IF c = "A" THEN InitialValues ELSE {Num(9)}
PersistOf(c) == IF c = "A" THEN BOOLEAN ELSE {FALSE}
ValuesOf(c) == IF c = "A" THEN DirectValues ELSE {Num(1)}
TransformsOf(c) == IF c = "A" THEN {TRUE} ELSE {}

\* The largest number v => v + 1 is allowed to produce.
MaxNum == 2

\* The debounce delay, in ticks of the clock.
DebounceTicks == 2

Component(c) == [owner |-> c, name |-> "component"]

\* The identity of the object JSON.parse creates in component c's adaptor.
\* An adaptor parses the text of a key into an object at most once: from
\* then on the object is served from its objectCache.
ParsedId(c) == IF c = "A" THEN 2 ELSE 3

\* StorageAdaptor instances used directly, each created with its prefix,
\* and the keys and values they are given: X is used with both keys, Y
\* with 'c'.  With these prefixes, key 'b-c' of X and key 'c' of Y have one
\* storage key, 'a-b-c'.
Adaptors == {"X", "Y"}
PrefixOf(a) == IF a = "X" THEN "a" ELSE "a-b"
StoreKeys == {"c", "b-c"}
StoreKeysOf(a) == IF a = "X" THEN StoreKeys ELSE {"c"}
StoreValues == {Undefined, Num(0), Obj(1, 1)}
Adaptor(a) == [owner |-> a, name |-> "adaptor"]

\* new StorageAdaptor(prefix)
NewAdaptor(a) == [prefix |-> PrefixOf(a), objectCache |-> EmptyObject]

VARIABLES
  state,               \* StateManager.state: key -> value, keys appear on first write
  rerendersToTrigger,  \* StateManager.rerendersToTrigger: key -> array of callbacks
  calls,               \* the callback invocations made by the last operation, in
                       \* order, each with the arguments the callback looked at
  raised,              \* the error the last operation raised to its caller, or "none"
  lastOp,              \* the last operation and its arguments
  lastWritten,         \* key -> the value passed to the most recent write of that key
  isBrowser,           \* useStorage.ts isBrowser: localStorage, else fallbackStorage
  backend,             \* localStorage / fallbackMemory: storage key -> text
  cons,                \* component -> its hook state (see Unmounted)
  deb,                 \* component -> its useDebouncedValue state (see NoDebounce)
  lastSaved,           \* key -> the value update most recently handed to storage.setItem
  adaptors,            \* StorageAdaptor instance -> its prefix and objectCache
  held                 \* adaptor -> key -> the object getItem(key) returned with no
                       \* setItem(key, _) on that adaptor since, or undefined

smVars == <<state, rerendersToTrigger, calls, raised, lastOp, lastWritten>>
hookVars == <<isBrowser, backend, cons, deb, lastSaved>>
storeVars == <<adaptors, held>>
vars == <<smVars, hookVars, storeVars>>

(***************************************************************************)
(* StateManager                                                            *)
(***************************************************************************)
\* read(): the state object itself.
read(st) == st

\* list.filter((s) => s !== subscription): every element other than
\* subscription, in order.
RECURSIVE FilterOut(_, _)
FilterOut(list, subscription) ==
  IF list = <<>> THEN <<>>
  ELSE (IF Head(list) # subscription THEN <<Head(list)>> ELSE <<>>)
       \o FilterOut(Tail(list), subscription)

\* this.rerendersToTrigger[key]?. : the key's array, nothing to visit when absent.
SubsOf(subs, key) == IF key \in DOMAIN subs THEN subs[key] ELSE <<>>

\* Faulty variant: a pass that goes on after a callback has thrown
Reached_PastThrow(list) == Len(list)

\* The number of callbacks forEach reaches: all of them, or up to and
\* including the first one that throws.
Reached(list) ==
  IF \E i \in 1..Len(list) : Throws(list[i])
  THEN CHOOSE i \in 1..Len(list) :
         Throws(list[i]) /\ \A j \in 1..(i - 1) : ~Throws(list[j])
  ELSE Len(list)

\* Faulty variant: the slot assigned only after the notification pass, so that a
\* throwing callback loses the write
write_StoreAfterNotify(st, subs, key, value) ==
  LET lastValue == Get(st, key)
      list == SubsOf(subs, key)
      upto == Reached(list)
      threw == \E i \in 1..Len(list) : Throws(list[i])
  IN [state |-> IF threw THEN st ELSE Put(st, key, value),
      calls |-> [i \in 1..upto |->
                   [cb |-> list[i], lastValue |-> lastValue, newValue |-> value]],
      raised |-> IF threw THEN "CallbackError" ELSE "none"]

\* Faulty variant: lastValue read after the slot has been assigned
write_LastValueAfterAssign(st, subs, key, value) ==
  LET list == SubsOf(subs, key)
      upto == Reached(list)
  IN [state |-> Put(st, key, value),
      calls |-> [i \in 1..upto |->
                   [cb |-> list[i], lastValue |-> value, newValue |-> value]],
      raised |-> IF \E i \in 1..Len(list) : Throws(list[i])
                 THEN "CallbackError" ELSE "none"]

\* Faulty variant: the callbacks visited from the last registered to the first
write_ReverseOrder(st, subs, key, value) ==
  LET lastValue == Get(st, key)
      list == SubsOf(subs, key)
      upto == Reached(list)
  IN [state |-> Put(st, key, value),
      calls |-> [i \in 1..upto |->
                   [cb |-> list[Len(list) + 1 - i], lastValue |-> lastValue,
                    newValue |-> value]],
      raised |-> IF \E i \in 1..Len(list) : Throws(list[i])
                 THEN "CallbackError" ELSE "none"]

\* Faulty variant: the state object replaced by one that holds the written key only
write_DropsOtherKeys(st, subs, key, value) ==
  LET lastValue == Get(st, key)
      list == SubsOf(subs, key)
      upto == Reached(list)
  IN [state |-> Put(EmptyObject, key, value),
      calls |-> [i \in 1..upto |->
                   [cb |-> list[i], lastValue |-> lastValue, newValue |-> value]],
      raised |-> IF \E i \in 1..Len(list) : Throws(list[i])
                 THEN "CallbackError" ELSE "none"]

\* write(key, value): the new state, the invocations made and the error raised.
write(st, subs, key, value) ==
  LET lastValue == Get(st, key)
      list == SubsOf(subs, key)
      upto == Reached(list)
  IN [state |-> Put(st, key, value),
      calls |-> [i \in 1..upto |->
                   [cb |-> list[i], lastValue |-> lastValue, newValue |-> value]],
      raised |-> IF \E i \in 1..Len(list) : Throws(list[i])
                 THEN "CallbackError" ELSE "none"]

\* watchForUpdates(key, rerenderFunction)
watchForUpdates(subs, key, rerenderFunction) ==
  LET have == IF key \in DOMAIN subs THEN subs ELSE Put(subs, key, <<>>)
  IN Put(have, key, Append(have[key], rerenderFunction))

\* Faulty variant: endWatch leaves the key's array as it is
endWatch_KeepsList(subs, key, subscription) == [subs |-> subs, raised |-> "none"]

\* endWatch(key, subscription): filter on undefined is a TypeError.
endWatch(subs, key, subscription) ==
  IF key \in DOMAIN subs
  THEN [subs |-> Put(subs, key, FilterOut(subs[key], subscription)),
        raised |-> "none"]
  ELSE [subs |-> subs, raised |-> "TypeError"]

(***************************************************************************)
(* StorageAdaptor (useStorage.ts)                                          *)
(***************************************************************************)
\* storage.getItem(storageKey): the text, or null / undefined when absent.
storageGetItem(be, storageKey) ==
  IF storageKey \in DOMAIN be THEN be[storageKey] ELSE NoText

\* storage.setItem(storageKey, text).  When JSON.stringify gave undefined,
\* localStorage stores the string 'undefined', which is not JSON;
\* fallbackStorage stores undefined itself.
storageSetItem(browser, be, storageKey, text) ==
  Put(be, storageKey, IF text = NoText /\ browser THEN Malformed ELSE text)

\* getStorageKey(key): `${prefix}-${key}` when the prefix is truthy.  The
\* empty string stands for both an absent and an empty prefix.
getStorageKey(prefix, key) == IF prefix # "" THEN prefix \o "-" \o key ELSE key

\* Faulty variant: a parsed object is returned without being put in objectCache
getItem_NoCache(cache, be, prefix, key, fresh) ==
  LET storageKey == getStorageKey(prefix, key)
      item == storageGetItem(be, storageKey)
  IN IF Truthy(Get(cache, storageKey))
     THEN [value |-> cache[storageKey], cache |-> cache, raised |-> "none"]
     ELSE [value |-> IF item.t = "json" THEN JSONparse(item, fresh) ELSE Undefined,
           cache |-> cache, raised |-> "none"]

\* getItem(key) on an adaptor with this objectCache: the value returned,
\* the objectCache afterwards and the error raised to the caller.
getItem(cache, be, prefix, key, fresh) ==
  LET storageKey == getStorageKey(prefix, key)
      item == storageGetItem(be, storageKey)
  IN IF Truthy(Get(cache, storageKey))
     THEN [value |-> cache[storageKey], cache |-> cache, raised |-> "none"]
     ELSE IF item.t = "malformed"
     THEN [value |-> Undefined, cache |-> cache, raised |-> "none"]
     ELSE LET parsedItem == IF item.t = "json" THEN JSONparse(item, fresh)
                            ELSE Undefined
          IN [value |-> parsedItem,
              cache |-> IF IsObject(parsedItem)
                        THEN Put(cache, storageKey, parsedItem) ELSE cache,
              raised |-> "none"]

\* setItem(key, value): the objectCache and the backend afterwards.
setItem(cache, be, browser, prefix, key, value) ==
  LET storageKey == getStorageKey(prefix, key)
  IN [cache |-> IF IsObject(value) THEN Put(cache, storageKey, value) ELSE cache,
      backend |-> storageSetItem(browser, be, storageKey, JSONstringify(value))]

(***************************************************************************)
(* useSharedState                                                          *)
(***************************************************************************)
\* The hook state of a component that is not mounted.
\*   persist            params.shouldSaveToStorage
\*   initialValue       params.initialValue of the latest render
\*   fixedInitialValue  useMemo(() => initialValue, [])
\*   cache              the objectCache of the component's StorageAdaptor
\*   effects            "pending" between a render and its effects
\*   sub                the rerender closure the latest effect registered
Unmounted ==
  [mounted |-> FALSE, persist |-> FALSE, initialValue |-> Undefined,
   fixedInitialValue |-> Undefined, cache |-> EmptyObject,
   effects |-> "none", sub |-> NoCallback]

\* The state of useDebouncedValue in a component that is not mounted.
\*   debounced  the trailing value the hook returns
\*   armed      a timeout is set, and fires when left reaches 0
\*   target     the value the latest timeout was set for
\*   input      the value the latest render passed to the hook
\*   dirty      a re-render has been asked for (forceRerender, or the
\*              trailing value has changed) and has not happened yet
NoDebounce ==
  [debounced |-> Undefined, armed |-> FALSE, left |-> 0, target |-> Undefined,
   input |-> Undefined, dirty |-> FALSE]

\* const val = read()[key] || storedValue || fixedInitialValue
resolve(slot, storedValue, fixedInitialValue) ==
  Or(Or(slot, storedValue), fixedInitialValue)

\* The body of useSharedState for component c: storedValue is read through
\* the adaptor only when shouldSaveToStorage is set.
renderBody(st, be, c, persist, cache, fixedInitialValue) ==
  LET got == IF persist THEN getItem(cache, be, "", HookKey, ParsedId(c))
             ELSE [value |-> Undefined, cache |-> cache, raised |-> "none"]
  IN [val |-> resolve(Get(read(st), HookKey), got.value, fixedInitialValue),
      cache |-> got.cache,
      storedValue |-> got.value]

\* setValue's argument x, turned into the value to write: a function is
\* applied to read()[key].
(* faulty variant: the transform is handed the slot of a key that does not exist *)
transformed_WrongSlot(st, key, x) == IF x.fn THEN Inc(Undefined) ELSE x.v

transformed(st, key, x) == IF x.fn THEN Inc(Get(read(st), key)) ELSE x.v

\* update(value): write, then -- unless write raised -- setItem when
\* shouldSaveToStorage is set.
update(st, subs, be, browser, key, persist, cache, x) ==
  LET value == transformed(st, key, x)
      w == write(st, subs, key, value)
      saved == w.raised = "none" /\ persist
      s == IF saved THEN setItem(cache, be, browser, "", key, value)
           ELSE [cache |-> cache, backend |-> be]
  IN [value |-> value, state |-> w.state, calls |-> w.calls, raised |-> w.raised,
      saved |-> saved, cache |-> s.cache, backend |-> s.backend]

(***************************************************************************)
(* SpecSM: the StateManager called directly.                               *)
(***************************************************************************)
SMInit ==
  /\ state = EmptyObject
  /\ rerendersToTrigger = EmptyObject
  /\ calls = <<>>
  /\ raised = "none"
  /\ lastOp = NoOp
  /\ lastWritten = EmptyObject
  /\ isBrowser = FALSE
  /\ backend = EmptyObject
  /\ cons = [c \in Consumers |-> Unmounted]
  /\ deb = [c \in Consumers |-> NoDebounce]
  /\ lastSaved = EmptyObject
  /\ adaptors = [a \in Adaptors |-> NewAdaptor(a)]
  /\ held = [a \in Adaptors |-> EmptyObject]

\* The number of registrations over all keys.
RECURSIVE TotalSubsOver(_, _)
TotalSubsOver(subs, ks) ==
  IF ks = {} THEN 0
  ELSE LET k == CHOOSE x \in ks : TRUE
       IN Len(subs[k]) + TotalSubsOver(subs, ks \ {k})

TotalSubs(subs) == TotalSubsOver(subs, DOMAIN subs)

SMWrite(k, v) ==
  LET r == write(state, rerendersToTrigger, k, v)
  IN /\ state' = r.state
     /\ calls' = r.calls
     /\ raised' = r.raised
     /\ lastOp' = Op("write", k, NoCallback, v, FALSE)
     /\ lastWritten' = Put(lastWritten, k, v)
     /\ UNCHANGED <<rerendersToTrigger, hookVars, storeVars>>

SMWatch(k, cb) ==
  /\ TotalSubs(rerendersToTrigger) < MaxSubs
  /\ rerendersToTrigger' = watchForUpdates(rerendersToTrigger, k, cb)
  /\ calls' = <<>>
  /\ raised' = "none"
  /\ lastOp' = Op("watchForUpdates", k, cb, Undefined, FALSE)
  /\ UNCHANGED <<state, lastWritten, hookVars, storeVars>>

SMEndWatch(k, cb) ==
  LET r == endWatch(rerendersToTrigger, k, cb)
  IN /\ rerendersToTrigger' = r.subs
     /\ calls' = <<>>
     /\ raised' = r.raised
     /\ lastOp' = Op("endWatch", k, cb, Undefined, FALSE)
     /\ UNCHANGED <<state, lastWritten, hookVars, storeVars>>

SMNext ==
  \/ \E k \in Keys, v \in SMValues : SMWrite(k, v)
  \/ \E k \in Keys, cb \in Callbacks : SMWatch(k, cb)
  \/ \E k \in Keys, cb \in Callbacks : SMEndWatch(k, cb)

SpecSM == SMInit /\ [][SMNext]_vars

(***************************************************************************)
(* SpecReentrant: the StateManager with subscribers that call write from   *)
(* inside a notification pass.  Again(k) is the closure                    *)
(*   ({ newValue }) => { if (newValue !== 1) write(k, 1) }                 *)
(* a subscriber that normalises the value of key k to 1.  An invocation    *)
(* is recorded with the key of the pass that made it.                      *)
(***************************************************************************)
Again(k) == Callback("again:" \o k)
ReentrantCallbacks == {Again(k) : k \in Keys}
Target(cb) == CHOOSE k \in Keys : cb = Again(k)
RCallbacks == {Callback("f")} \cup ReentrantCallbacks

\* write(key, value) and the forEach of its notification pass from index i
\* on, with callbacks that may call write: the state afterwards, the
\* invocations in the order they were made (those of a nested write lie
\* between the invocation that made it and the next one of the outer pass)
\* and the keys written by nested calls.
RECURSIVE writeNested(_, _, _, _)
RECURSIVE forEachFrom(_, _, _, _, _, _, _)
forEachFrom(st, subs, key, list, i, lastValue, value) ==
  IF i > Len(list) THEN [state |-> st, calls |-> <<>>, nested |-> {}]
  ELSE LET render == list[i]
           call == [cb |-> render, key |-> key, lastValue |-> lastValue,
                    newValue |-> value]
           inner == IF render \in ReentrantCallbacks /\ value # Num(1)
                    THEN LET w == writeNested(st, subs, Target(render), Num(1))
                         IN [w EXCEPT !.nested = @ \cup {Target(render)}]
                    ELSE [state |-> st, calls |-> <<>>, nested |-> {}]
           rest == forEachFrom(inner.state, subs, key, list, i + 1, lastValue, value)
       IN [state |-> rest.state,
           calls |-> <<call>> \o inner.calls \o rest.calls,
           nested |-> inner.nested \cup rest.nested]

writeNested(st, subs, key, value) ==
  LET lastValue == Get(st, key)
  IN forEachFrom(Put(st, key, value), subs, key, SubsOf(subs, key), 1,
                 lastValue, value)

RWrite(k, v) ==
  LET r == writeNested(state, rerendersToTrigger, k, v)
  IN /\ state' = r.state
     /\ calls' = r.calls
     /\ raised' = "none"
     /\ lastOp' = Op("write", k, NoCallback, v, FALSE)
     /\ lastWritten' = [x \in DOMAIN lastWritten \cup {k} \cup r.nested |->
                          IF x \in r.nested THEN Num(1)
                          ELSE IF x = k THEN v ELSE lastWritten[x]]
     /\ UNCHANGED <<rerendersToTrigger, hookVars, storeVars>>

RNext ==
  \/ \E k \in Keys, v \in SMValues : RWrite(k, v)
  \/ \E k \in Keys, cb \in RCallbacks : SMWatch(k, cb)
  \/ \E k \in Keys, cb \in RCallbacks : SMEndWatch(k, cb)

SpecReentrant == SMInit /\ [][RNext]_vars

(***************************************************************************)
(* The operations of components using useSharedState under one             *)
(* SharedStateProvider.  These actions leave deb, the state of             *)
(* useDebouncedValue, to the specification that uses them.                 *)
(***************************************************************************)
\* The backend holds nothing for the key, or text that is not JSON, left
\* there before the program started.
HookInit ==
  /\ state = EmptyObject
  /\ rerendersToTrigger = EmptyObject
  /\ calls = <<>>
  /\ raised = "none"
  /\ lastOp = NoOp
  /\ lastWritten = EmptyObject
  /\ isBrowser \in BOOLEAN
  /\ backend \in {EmptyObject} \cup
                 (IF isBrowser THEN {Put(EmptyObject, HookKey, Malformed)} ELSE {})
  /\ cons = [c \in Consumers |-> Unmounted]
  /\ deb = [c \in Consumers |-> NoDebounce]
  /\ lastSaved = EmptyObject
  /\ adaptors = [a \in Adaptors |-> NewAdaptor(a)]
  /\ held = [a \in Adaptors |-> EmptyObject]

\* const rerender = () => { forceRerender() }: a new closure in every
\* effect, that is one that is none of those in the list.
ClosureNames == <<"r1", "r2", "r3">>
NextClosure(c, list) ==
  LET free == {i \in 1..Len(ClosureNames) :
                 \A j \in 1..Len(list) :
                   list[j] # [owner |-> c, name |-> ClosureNames[i]]}
  IN [owner |-> c, name |-> ClosureNames[CHOOSE i \in free : \A j \in free : i <= j]]

\* The components whose rerender closure was invoked: forceRerender()
\* (setRenderCount(value => value + 1)) asks React to render them again.
forceRerender(invoked) == {invoked[i].cb.owner : i \in 1..Len(invoked)}

\* The invocations as the rerender closures see them: () => { forceRerender() }
\* takes no arguments.
Rerenders(invoked) ==
  [i \in 1..Len(invoked) |->
     [cb |-> invoked[i].cb, lastValue |-> Undefined, newValue |-> Undefined]]

\* The first render of component c, with props initialValue = iv and
\* shouldSaveToStorage = persist: useMemo captures iv and useStorage creates
\* the adaptor.
Mount(c, iv, persist) ==
  LET r == renderBody(state, backend, c, persist, EmptyObject, iv)
  IN /\ ~cons[c].mounted
     /\ cons' = [cons EXCEPT ![c] =
                   [mounted |-> TRUE, persist |-> persist, initialValue |-> iv,
                    fixedInitialValue |-> iv, cache |-> r.cache,
                    effects |-> "pending", sub |-> NoCallback]]
     /\ calls' = <<>>
     /\ raised' = "none"
     /\ lastOp' = Op("mount", HookKey, Component(c), r.val, FALSE)
     /\ UNCHANGED <<state, rerendersToTrigger, lastWritten, isBrowser, backend,
                    lastSaved, storeVars>>

\* A later render of component c with props initialValue = iv, whoever asked
\* for it (forceRerender, useDebouncedValue or the parent).  The effects of
\* the render before it have run.
Render(c, iv) ==
  LET me == cons[c]
      r == renderBody(state, backend, c, me.persist, me.cache, me.fixedInitialValue)
  IN /\ me.mounted /\ me.effects = "flushed"
     /\ cons' = [cons EXCEPT ![c] =
                   [me EXCEPT !.initialValue = iv, !.cache = r.cache,
                              !.effects = "pending"]]
     /\ calls' = <<>>
     /\ raised' = "none"
     /\ lastOp' = Op("render", HookKey, Component(c), r.val, FALSE)
     /\ UNCHANGED <<state, rerendersToTrigger, lastWritten, isBrowser, backend,
                    lastSaved, storeVars>>

\* The subscription effect of component c's latest render: the cleanup of
\* the effect before it (endWatch), then watchForUpdates with a new closure.
FlushEffects(c) ==
  LET me == cons[c]
      cleaned == IF me.sub = NoCallback
                 THEN [subs |-> rerendersToTrigger, raised |-> "none"]
                 ELSE endWatch(rerendersToTrigger, HookKey, me.sub)
      rerender == NextClosure(c, SubsOf(cleaned.subs, HookKey))
  IN /\ me.mounted /\ me.effects = "pending"
     /\ rerendersToTrigger' = watchForUpdates(cleaned.subs, HookKey, rerender)
     /\ cons' = [cons EXCEPT ![c] = [me EXCEPT !.effects = "flushed", !.sub = rerender]]
     /\ calls' = <<>>
     /\ raised' = cleaned.raised
     /\ lastOp' = Op("effects", HookKey, Component(c), Undefined, FALSE)
     /\ UNCHANGED <<state, lastWritten, isBrowser, backend, lastSaved, storeVars>>

\* update(x) in component c, x a value or the transform v => v + 1.
Update(c, x, op) ==
  LET me == cons[c]
      u == update(state, rerendersToTrigger, backend, isBrowser, HookKey,
                  me.persist, me.cache, x)
  IN /\ state' = u.state
     /\ backend' = u.backend
     /\ cons' = [cons EXCEPT ![c].cache = u.cache]
     /\ calls' = Rerenders(u.calls)
     /\ raised' = u.raised
     /\ lastWritten' = Put(lastWritten, HookKey, u.value)
     /\ lastSaved' = IF u.saved THEN Put(lastSaved, HookKey, u.value) ELSE lastSaved
     /\ lastOp' = Op(op, HookKey, Component(c), u.value, x.fn)
     /\ UNCHANGED <<rerendersToTrigger, isBrowser, storeVars>>

\* setValue(x)
SetValue(c, x) ==
  /\ cons[c].mounted
  /\ x.fn => LET v == Inc(Get(read(state), HookKey))
             IN v.kind \in {"number", "NaN"} /\ v.n <= MaxNum
  /\ Update(c, x, "setValue")

\* clear: () => { update(initialValue) }, initialValue that of the latest render.
Clear(c) ==
  /\ cons[c].mounted
  /\ Update(c, [fn |-> FALSE, v |-> cons[c].initialValue], "clear")

\* Component c is removed: its subscription effect is cleaned up (endWatch).
Unmount(c) ==
  LET me == cons[c]
      cleaned == IF me.sub = NoCallback
                 THEN [subs |-> rerendersToTrigger, raised |-> "none"]
                 ELSE endWatch(rerendersToTrigger, HookKey, me.sub)
  IN /\ me.mounted
     /\ rerendersToTrigger' = cleaned.subs
     /\ cons' = [cons EXCEPT ![c] = Unmounted]
     /\ calls' = <<>>
     /\ raised' = cleaned.raised
     /\ lastOp' = Op("unmount", HookKey, Component(c), Undefined, FALSE)
     /\ UNCHANGED <<state, lastWritten, isBrowser, backend, lastSaved, storeVars>>

\* The page is loaded again: a new StateManager, no component mounted, the
\* backend as it was.
Reload ==
  /\ state # EmptyObject \/ \E c \in Consumers : cons[c].mounted
  /\ state' = EmptyObject
  /\ rerendersToTrigger' = EmptyObject
  /\ cons' = [c \in Consumers |-> Unmounted]
  /\ calls' = <<>>
  /\ raised' = "none"
  /\ lastWritten' = EmptyObject
  /\ lastOp' = Op("reload", HookKey, NoCallback, Undefined, FALSE)
  /\ UNCHANGED <<isBrowser, backend, lastSaved, storeVars>>

(***************************************************************************)
(* SpecHook: the components without the internals of useDebouncedValue.    *)
(* Its only effect on the rest is to ask for a re-render, and Render may   *)
(* happen at any time.                                                     *)
(***************************************************************************)
HookNext ==
  \/ \E c \in Consumers : \E iv \in InitialValuesOf(c), persist \in PersistOf(c) :
       Mount(c, iv, persist) /\ UNCHANGED deb
  \/ \E c \in Consumers : \E iv \in InitialValuesOf(c) :
       Render(c, iv) /\ UNCHANGED deb
  \/ \E c \in Consumers : FlushEffects(c) /\ UNCHANGED deb
  \/ \E c \in Consumers : \E v \in ValuesOf(c) :
       SetValue(c, [fn |-> FALSE, v |-> v]) /\ UNCHANGED deb
  \/ \E c \in Consumers : \E f \in TransformsOf(c) :
       SetValue(c, [fn |-> f, v |-> Undefined]) /\ UNCHANGED deb
  \/ \E c \in Consumers : Clear(c) /\ UNCHANGED deb
  \/ \E c \in Consumers : Unmount(c) /\ UNCHANGED deb
  \/ Reload /\ UNCHANGED deb

SpecHook == HookInit /\ [][HookNext]_vars

(***************************************************************************)
(* SpecDebounce: component A, without persistence, with its                *)
(* useDebouncedValue(val, debounceTime) and a clock.  The hook keeps a     *)
(* trailing value, which starts as the first val; an effect that depends   *)
(* on val sets a timeout of the delay and clears the one before it; the    *)
(* timeout makes the trailing value the val it was set for.                *)
(***************************************************************************)
DebConsumers == {"A"}
DebValues == {Num(0), Num(1)}

DebInit ==
  /\ HookInit
  /\ isBrowser
  /\ backend = EmptyObject

NoTimerDue == \A c \in Consumers : ~(deb[c].armed /\ deb[c].left = 0)

\* The first render: useState(value) starts the trailing value as val.
DMount(c, iv, persist) ==
  /\ Mount(c, iv, persist)
  /\ deb' = [deb EXCEPT ![c] = [NoDebounce EXCEPT !.debounced = lastOp'.value,
                                                  !.input = lastOp'.value]]

\* A later render, asked for by forceRerender, by the trailing value or by
\* the parent's new props, passes its val to the hook.
DRender(c, iv) ==
  /\ deb[c].dirty \/ iv # cons[c].initialValue
  /\ Render(c, iv)
  /\ deb' = [deb EXCEPT ![c].input = lastOp'.value, ![c].dirty = FALSE]

\* The effects of a render: the subscription effect, and the timeout effect
\* when it runs for the first time or val is not the one it last ran for.
DFlushEffects(c) ==
  /\ FlushEffects(c)
  /\ deb' = IF cons[c].sub = NoCallback \/ deb[c].input # deb[c].target
            THEN [deb EXCEPT ![c].armed = TRUE, ![c].left = DebounceTicks,
                             ![c].target = deb[c].input]
            ELSE deb

\* The components notified by a write are rendered again.
Notify ==
  deb' = [c \in Consumers |->
            IF c \in forceRerender(calls') /\ cons[c].mounted
            THEN [deb[c] EXCEPT !.dirty = TRUE] ELSE deb[c]]

\* setValue and clear are called from the handlers of a component whose
\* effects have run, and a timeout that is due runs first.
DSetValue(c, x) ==
  /\ cons[c].sub # NoCallback /\ NoTimerDue
  /\ SetValue(c, x)
  /\ Notify

DClear(c) ==
  /\ cons[c].sub # NoCallback /\ NoTimerDue
  /\ Clear(c)
  /\ Notify

\* Teardown clears the timeout.
DUnmount(c) ==
  /\ Unmount(c)
  /\ deb' = [deb EXCEPT ![c] = NoDebounce]

DReload ==
  /\ Reload
  /\ deb' = [c \in Consumers |-> NoDebounce]

\* One tick of the clock.  React's renders and effects are done before time
\* moves on, and a timeout that is due runs before the next tick.
Tick ==
  /\ \E c \in Consumers : deb[c].armed
  /\ NoTimerDue
  /\ \A c \in Consumers : ~deb[c].dirty /\ cons[c].effects # "pending"
  /\ deb' = [c \in Consumers |->
               IF deb[c].armed THEN [deb[c] EXCEPT !.left = @ - 1] ELSE deb[c]]
  /\ calls' = <<>>
  /\ raised' = "none"
  /\ lastOp' = Op("tick", HookKey, NoCallback, Undefined, FALSE)
  /\ UNCHANGED <<state, rerendersToTrigger, lastWritten, isBrowser, backend, cons,
                 lastSaved, storeVars>>

\* The timeout of component c runs: the trailing value becomes the val the
\* timeout was set for, and the component is rendered again if that is a
\* change.
TimerFire(c) ==
  /\ cons[c].mounted /\ deb[c].armed /\ deb[c].left = 0
  /\ deb' = [deb EXCEPT ![c].debounced = deb[c].target,
                        ![c].armed = FALSE,
                        ![c].dirty = deb[c].dirty \/ deb[c].target # deb[c].debounced]
  /\ calls' = <<>>
  /\ raised' = "none"
  /\ lastOp' = Op("timeout", HookKey, Component(c), deb[c].target, FALSE)
  /\ UNCHANGED <<state, rerendersToTrigger, lastWritten, isBrowser, backend, cons,
                 lastSaved, storeVars>>

DebNext ==
  \/ \E c \in DebConsumers : \E iv \in InitialValuesOf(c) : DMount(c, iv, FALSE)
  \/ \E c \in DebConsumers : \E iv \in InitialValuesOf(c) : DRender(c, iv)
  \/ \E c \in DebConsumers : DFlushEffects(c)
  \/ \E c \in DebConsumers : \E v \in DebValues :
       DSetValue(c, [fn |-> FALSE, v |-> v])
  \/ \E c \in DebConsumers : \E f \in TransformsOf(c) :
       DSetValue(c, [fn |-> f, v |-> Undefined])
  \/ \E c \in DebConsumers : DClear(c)
  \/ \E c \in DebConsumers : DUnmount(c)
  \/ \E c \in DebConsumers : TimerFire(c)
  \/ Tick
  \/ DReload

SpecDebounce == DebInit /\ [][DebNext]_vars

(***************************************************************************)
(* SpecStorage: two StorageAdaptors with different prefixes over one       *)
(* backend, called directly.                                               *)
(***************************************************************************)
StoreInit ==
  /\ state = EmptyObject
  /\ rerendersToTrigger = EmptyObject
  /\ calls = <<>>
  /\ raised = "none"
  /\ lastOp = NoOp
  /\ lastWritten = EmptyObject
  /\ isBrowser \in BOOLEAN
  /\ backend = EmptyObject
  /\ cons = [c \in Consumers |-> Unmounted]
  /\ deb = [c \in Consumers |-> NoDebounce]
  /\ lastSaved = EmptyObject
  /\ adaptors = [a \in Adaptors |-> NewAdaptor(a)]
  /\ held = [a \in Adaptors |-> EmptyObject]

\* The identity of the next object JSON.parse creates: one that no object
\* an adaptor caches or a caller holds has (identity 1 is the caller's own
\* object).
UsedIds ==
  UNION {{adaptors[a].objectCache[k].id : k \in DOMAIN adaptors[a].objectCache}
         \cup {held[a][k].id : k \in DOMAIN held[a]} : a \in Adaptors}
FreshId ==
  CHOOSE i \in 2..(2 + Cardinality(UsedIds)) :
    /\ i \notin UsedIds
    /\ \A j \in 2..(i - 1) : j \in UsedIds

\* adaptor.getItem(k)
GetItem(a, k) ==
  LET r == getItem(adaptors[a].objectCache, backend, adaptors[a].prefix, k, FreshId)
  IN /\ adaptors' = [adaptors EXCEPT ![a].objectCache = r.cache]
     /\ held' = IF IsObject(r.value)
                THEN [held EXCEPT ![a] = Put(held[a], k, r.value)] ELSE held
     /\ calls' = <<>>
     /\ raised' = r.raised
     /\ lastOp' = Op("getItem", k, Adaptor(a), r.value, FALSE)
     /\ UNCHANGED <<state, rerendersToTrigger, lastWritten, isBrowser, backend,
                    cons, deb, lastSaved>>

\* adaptor.setItem(k, v)
SetItem(a, k, v) ==
  LET r == setItem(adaptors[a].objectCache, backend, isBrowser,
                   adaptors[a].prefix, k, v)
  IN /\ adaptors' = [adaptors EXCEPT ![a].objectCache = r.cache]
     /\ backend' = r.backend
     /\ held' = [held EXCEPT ![a] = Put(held[a], k, Undefined)]
     /\ calls' = <<>>
     /\ raised' = "none"
     /\ lastOp' = Op("setItem", k, Adaptor(a), v, FALSE)
     /\ UNCHANGED <<state, rerendersToTrigger, lastWritten, isBrowser, cons, deb,
                    lastSaved>>

\* The adaptor is created again (useMemo of useStorage after a reload): an
\* empty objectCache over the same backend.
Recreate(a) ==
  /\ adaptors[a] # NewAdaptor(a)
  /\ adaptors' = [adaptors EXCEPT ![a] = NewAdaptor(a)]
  /\ held' = [held EXCEPT ![a] = EmptyObject]
  /\ calls' = <<>>
  /\ raised' = "none"
  /\ lastOp' = Op("new", "none", Adaptor(a), Undefined, FALSE)
  /\ UNCHANGED <<state, rerendersToTrigger, lastWritten, isBrowser, backend,
                 cons, deb, lastSaved>>

StoreNext ==
  \/ \E a \in Adaptors : \E k \in StoreKeysOf(a) : GetItem(a, k)
  \/ \E a \in Adaptors : \E k \in StoreKeysOf(a), v \in StoreValues : SetItem(a, k, v)
  \/ \E a \in Adaptors : Recreate(a)

SpecStorage == StoreInit /\ [][StoreNext]_vars

(***************************************************************************)
(* Properties of the StateManager (checked under SpecSM).                  *)
(***************************************************************************)
\* The positions of callback cb in a subscriber list / in the invocations.
Registrations(list, cb) == {i \in 1..Len(list) : list[i] = cb}
Invocations(cs, cb) == {i \in 1..Len(cs) : cs[i].cb = cb}

\* C1: last write wins -- for every key that has been written, read()[K] is
\* the value passed to the most recent write(K, _), whatever watchForUpdates
\* and endWatch calls came in between; and right after write(K, v), also one
\* whose notification pass threw, read()[K] is v.
C1_LastWriteWins ==
  /\ \A k \in DOMAIN lastWritten : Get(read(state), k) = lastWritten[k]
  /\ lastOp.op = "write" => Get(read(state), lastOp.key) = lastOp.value

\* C1 witness: a write of 1 over a slot that held 0, whose pass threw.
C1_Witness ==
  /\ lastOp.op = "write" /\ lastOp.value = Num(1)
  /\ raised = "CallbackError"
  /\ calls # <<>> /\ calls[1].lastValue = Num(0)
  /\ Get(read(state), lastOp.key) = Num(1)

RECURSIVE RemoveFirst(_, _)
RemoveFirst(list, cb) ==
  IF list = <<>> THEN <<>>
  ELSE IF Head(list) = cb THEN Tail(list)
  ELSE <<Head(list)>> \o RemoveFirst(Tail(list), cb)

\* C9 (as stated): endWatch(K, cb) raises no error, removes the first
\* registration of cb from K's list and leaves every other registration, in
\* order, and every other key's list as they were; it changes nothing when
\* cb is not registered for K.
C9_EndWatchNoError ==
  [][lastOp'.op = "endWatch" =>
       /\ raised' = "none"
       /\ \A k \in Keys :
            SubsOf(rerendersToTrigger', k) =
              IF k = lastOp'.key
              THEN RemoveFirst(SubsOf(rerendersToTrigger, k), lastOp'.cb)
              ELSE SubsOf(rerendersToTrigger, k)]_vars

Invoked(cs) == [i \in 1..Len(cs) |-> cs[i].cb]

\* C11: within one key, callbacks run in registration order and during the
\* write.  watchForUpdates(K, cb) puts cb after every callback registered
\* for K before it and endWatch keeps the order of those it leaves; the
\* callbacks write(K, v) invokes are the first ones of K's list, in the
\* list's order, each with v, and when write returns (raises nothing) they
\* are all of K's list.
C11_RegistrationOrder ==
  [][/\ lastOp'.op = "watchForUpdates" =>
          SubsOf(rerendersToTrigger', lastOp'.key) =
            Append(SubsOf(rerendersToTrigger, lastOp'.key), lastOp'.cb)
     /\ (lastOp'.op = "endWatch" /\ raised' = "none") =>
          SubsOf(rerendersToTrigger', lastOp'.key) =
            FilterOut(SubsOf(rerendersToTrigger, lastOp'.key), lastOp'.cb)
     /\ lastOp'.op = "write" =>
          LET list == SubsOf(rerendersToTrigger, lastOp'.key)
          IN /\ Len(calls') <= Len(list)
             /\ Invoked(calls') = SubSeq(list, 1, Len(calls'))
             /\ \A i \in 1..Len(calls') : calls'[i].newValue = lastOp'.value
             /\ raised' = "none" => Invoked(calls') = list
    ]_vars

\* C11 witness: g was registered for k1 before f, and a write to k1 has
\* returned after invoking g and then f.
C11_Witness ==
  /\ lastOp.op = "write" /\ lastOp.key = "k1" /\ raised = "none"
  /\ SubsOf(rerendersToTrigger, "k1") = <<Callback("g"), Callback("f")>>
  /\ Invoked(calls) = <<Callback("g"), Callback("f")>>

\* C16: the frame of write.  write(K, v) leaves the value of every other
\* key, and the set of keys other than K, as they were, leaves every key's
\* subscriber list as it was, and invokes only callbacks registered for K.
C16_WriteFrame ==
  [][lastOp'.op = "write" =>
       LET k == lastOp'.key
       IN /\ DOMAIN state' = DOMAIN state \cup {k}
          /\ \A other \in Keys \ {k} :
               Get(read(state'), other) = Get(read(state), other)
          /\ rerendersToTrigger' = rerendersToTrigger
          /\ \A i \in 1..Len(calls') :
               Registrations(SubsOf(rerendersToTrigger, k), calls'[i].cb) # {}
    ]_vars

\* C16 witness: a write to k1 has invoked f, while k2 holds 1 and g is
\* registered for k2 only.
C16_Witness ==
  /\ lastOp.op = "write" /\ lastOp.key = "k1" /\ lastOp.value = Num(0)
  /\ Get(read(state), "k2") = Num(1)
  /\ Invoked(calls) = <<Callback("f")>>
  /\ SubsOf(rerendersToTrigger, "k2") = <<Callback("g")>>
  /\ Registrations(SubsOf(rerendersToTrigger, "k1"), Callback("g")) = {}

(***************************************************************************)
(* Properties of re-entrant notification (checked under SpecReentrant).    *)
(***************************************************************************)
\* The invocations of cb made by passes over key k.
Delivered(cs, k, cb) == {i \in 1..Len(cs) : cs[i].key = k /\ cs[i].cb = cb}

\* C17 (as stated): when the outermost write returns, the last notification
\* each subscriber of a key got during it carries, as newValue, the value
\* the key's slot now holds.
C17_LastNotificationCurrent ==
  lastOp.op = "write" =>
    \A k \in Keys : \A cb \in RCallbacks :
      LET got == Delivered(calls, k, cb)
      IN (got # {} /\ Registrations(SubsOf(rerendersToTrigger, k), cb) # {})
         => LET last == CHOOSE i \in got : \A j \in got : j <= i
            IN calls[last].newValue = Get(read(state), k)

\* Without a nested write to the key, the notifications do carry the
\* slot's value.
ReentrantPassCurrent ==
  lastOp.op = "write" =>
    \A i \in 1..Len(calls) :
      (\A j \in 1..Len(calls) : calls[j].key = calls[i].key
                                 => calls[j].newValue = calls[i].newValue)
      => calls[i].newValue = Get(read(state), calls[i].key)

(***************************************************************************)
(* Properties of useSharedState (checked under SpecHook).                  *)
(***************************************************************************)
\* The component that performed the last operation, and its hook state.
Actor == lastOp.cb.owner
Me == cons[Actor]

\* What storage.getItem(key) gives the component's hook now.
StoredValue(c) ==
  IF cons[c].persist
  THEN getItem(cons[c].cache, backend, "", HookKey, ParsedId(c)).value
  ELSE Undefined

\* Values JSON can carry, and equality of two values up to the identity of
\* an object (a decoded object is a new instance).
JSONSerialisable(v) == v.kind \notin {"undefined", "NaN"}
SameJSON(a, b) == JSONstringify(a) = JSONstringify(b)

\* C3 (as stated): right after clear() in a component, the slot of the key
\* holds the initial value that component captured at its first render,
\* whatever setValue calls and whatever initialValue props came in between.
C3_ClearRestoresCaptured ==
  lastOp.op = "clear" => Get(read(state), HookKey) = Me.fixedInitialValue

\* C4 (as stated): the value the hook returns from a render is the slot's
\* value when the slot holds one (0 and null among them); else, for a
\* component with shouldSaveToStorage, the persisted value when there is
\* one; else the initial value captured at the first render.
C4_ResolutionOrder ==
  lastOp.op \in {"mount", "render"} =>
    LET slot == Get(read(state), HookKey)
        stored == StoredValue(Actor)
    IN lastOp.value = IF slot # Undefined THEN slot
                      ELSE IF stored # Undefined THEN stored
                      ELSE Me.fixedInitialValue

\* C5 (as stated): a first render with shouldSaveToStorage, in a session
\* that has not written the key, returns the value last saved by
\* setValue in an earlier session, for every JSON-serialisable value.
C5_ReloadYieldsSaved ==
  (/\ lastOp.op = "mount" /\ Me.persist
   /\ HookKey \notin DOMAIN state
   /\ HookKey \in DOMAIN lastSaved
   /\ JSONSerialisable(lastSaved[HookKey]))
  => SameJSON(lastOp.value, lastSaved[HookKey])

\* C6: setValue(f) writes f(the slot's value) to the slot; in particular
\* setValue(1) followed by setValue(v => v + 1) leaves 2 in the slot, and 2
\* is what the hook then returns to the component, whatever its initial
\* value and whatever is persisted.
C6_TransformOnSlot ==
  [][(lastOp'.op = "setValue" /\ lastOp'.fn) =>
       /\ Get(read(state'), HookKey) = Inc(Get(read(state), HookKey))
       /\ lastOp'.value = Inc(Get(read(state), HookKey))
       /\ (lastOp.op = "setValue" /\ ~lastOp.fn /\ lastOp.value = Num(1)) =>
            LET c == lastOp'.cb.owner
            IN /\ Get(read(state'), HookKey) = Num(2)
               /\ renderBody(state', backend', c, cons'[c].persist, cons'[c].cache,
                             cons'[c].fixedInitialValue).val = Num(2)]_vars

\* C6 witness: the counter example -- initial value 0, setValue(1), then
\* setValue(v => v + 1) has just left 2 in the slot.
C6_Witness ==
  /\ lastOp.op = "setValue" /\ lastOp.fn /\ lastOp.value = Num(2)
  /\ Get(read(state), HookKey) = Num(2)
  /\ Me.fixedInitialValue = Num(0)

\* C8 (as stated): when the backend's text for the key is not JSON, getItem
\* in a component with shouldSaveToStorage returns undefined and raises
\* nothing, and with no value in the slot the hook returns the component's
\* initial value.
C8_MalformedIsAbsent ==
  (/\ lastOp.op \in {"mount", "render"} /\ Me.persist
   /\ storageGetItem(backend, getStorageKey("", HookKey)).t = "malformed")
  => /\ StoredValue(Actor) = Undefined
     /\ raised = "none"
     /\ Get(read(state), HookKey) = Undefined => lastOp.value = Me.fixedInitialValue

\* The registrations of component c's rerender closures for the key.
RegisteredBy(c) ==
  {i \in 1..Len(SubsOf(rerendersToTrigger, HookKey)) :
     SubsOf(rerendersToTrigger, HookKey)[i].owner = c}

\* C14: the subscription lifecycle.  No component ever has more than one
\* callback registered for the key and no cleanup raises an error; once
\* the effects of every render have run, each mounted component has
\* exactly one callback registered -- the closure of its latest effect --
\* and each unmounted one none, so the key's list is as long as there are
\* mounted components.
C14_OneSubscriptionEach ==
  /\ raised = "none"
  /\ \A c \in Consumers :
       /\ Cardinality(RegisteredBy(c)) <= 1
       /\ ~cons[c].mounted => RegisteredBy(c) = {}
  /\ (\A c \in Consumers : cons[c].effects # "pending") =>
       /\ \A c \in Consumers :
            cons[c].mounted =>
              /\ Cardinality(RegisteredBy(c)) = 1
              /\ \A i \in RegisteredBy(c) :
                   SubsOf(rerendersToTrigger, HookKey)[i] = cons[c].sub
       /\ Len(SubsOf(rerendersToTrigger, HookKey)) =
            Cardinality({c \in Consumers : cons[c].mounted})

\* C14 witness: the effects of a re-render of A (it has been given another
\* initialValue since its first render) have just run while B is mounted:
\* the key's list holds B's closure and then A's new one.
C14_Witness ==
  /\ lastOp.op = "effects" /\ Actor = "A"
  /\ cons["A"].initialValue # cons["A"].fixedInitialValue
  /\ cons["B"].mounted /\ cons["B"].effects = "flushed"
  /\ HookKey \in DOMAIN state
  /\ SubsOf(rerendersToTrigger, HookKey) = <<cons["B"].sub, cons["A"].sub>>

(***************************************************************************)
(* Properties of the debounced value (checked under SpecDebounce).         *)
(***************************************************************************)
\* The delay has elapsed since val last changed: the component is rendered,
\* its effects have run and no timeout is pending.
Settled(c) ==
  /\ cons[c].mounted /\ cons[c].effects = "flushed"
  /\ ~deb[c].dirty /\ ~deb[c].armed

\* C7 (as stated): once the delay has elapsed after the last setValue, the
\* debounced value is the last value set; and whenever the debounced value
\* changes it changes to the last value set, never to an earlier one.
C7_Debounce ==
  /\ [](\A c \in DebConsumers :
          (Settled(c) /\ HookKey \in DOMAIN lastWritten)
          => deb[c].debounced = lastWritten[HookKey])
  /\ [][\A c \in DebConsumers :
          (/\ cons[c].mounted /\ cons'[c].mounted
           /\ deb'[c].debounced # deb[c].debounced)
          => deb'[c].debounced = lastWritten'[HookKey]]_vars

\* The same for sequences whose last value is truthy.
DebounceOfTruthy ==
  /\ [](\A c \in DebConsumers :
          (/\ Settled(c) /\ HookKey \in DOMAIN lastWritten
           /\ Truthy(lastWritten[HookKey]))
          => deb[c].debounced = lastWritten[HookKey])
  /\ [][\A c \in DebConsumers :
          (/\ cons[c].mounted /\ cons'[c].mounted
           /\ deb'[c].debounced # deb[c].debounced
           /\ HookKey \in DOMAIN lastWritten' /\ Truthy(lastWritten'[HookKey]))
          => deb'[c].debounced = lastWritten'[HookKey]]_vars

(***************************************************************************)
(* Properties of the StorageAdaptor (checked under SpecStorage).           *)
(***************************************************************************)
\* C12: object identity.  Once getItem(k) on an adaptor has returned an
\* object, decoded from the backend or given to setItem before, every
\* later getItem(k) on that adaptor with no setItem(k, _) on it in between
\* returns that same instance, whatever the backend holds by then.
C12_SameInstance ==
  [][lastOp'.op = "getItem" =>
       LET a == lastOp'.cb.owner
           was == Get(held[a], lastOp'.key)
       IN was # Undefined => /\ lastOp'.value = was
                             /\ lastOp'.value.id = was.id]_vars

\* C12 witness: getItem has returned the object it decoded earlier, while
\* the backend no longer holds an object's text for the key.
C12_Witness ==
  /\ lastOp.op = "getItem" /\ IsObject(lastOp.value) /\ lastOp.value.id # 1
  /\ LET a == lastOp.cb.owner
     IN ~IsObject(storageGetItem(backend,
                                 getStorageKey(adaptors[a].prefix, lastOp.key)).v)

\* What adaptor b's getItem(k) would return over backend be.
WouldGet(b, be, k) ==
  getItem(adaptors[b].objectCache, be, adaptors[b].prefix, k, FreshId).value

\* C13 (as stated): setItem on one adaptor changes what getItem returns on
\* an adaptor with another prefix for no key.
C13_NoCollision ==
  [][lastOp'.op = "setItem" =>
       \A b \in Adaptors \ {lastOp'.cb.owner} :
         adaptors[b].prefix # adaptors[lastOp'.cb.owner].prefix =>
           \A k2 \in StoreKeysOf(b) :
             WouldGet(b, backend', k2) = WouldGet(b, backend, k2)]_vars

\* The same for two keys whose storage keys differ.
DistinctStorageKeysIndependent ==
  [][lastOp'.op = "setItem" =>
       LET a == lastOp'.cb.owner
       IN \A b \in Adaptors \ {a} : \A k2 \in StoreKeysOf(b) :
            getStorageKey(adaptors[b].prefix, k2)
              # getStorageKey(adaptors[a].prefix, lastOp'.key)
            => WouldGet(b, backend', k2) = WouldGet(b, backend, k2)]_vars

\* C15 (as stated): getItem(k) right after setItem(k, v) on the same
\* adaptor returns v -- the same instance for an object, an equal value for
\* a JSON-serialisable primitive -- whatever was stored or read under k
\* before.
C15_RoundTrip ==
  [][(/\ lastOp.op = "setItem" /\ lastOp'.op = "getItem"
      /\ lastOp'.cb = lastOp.cb /\ lastOp'.key = lastOp.key
      /\ JSONSerialisable(lastOp.value))
     => lastOp'.value = lastOp.value]_vars

\* The same when the adaptor has no object cached for the key or the value
\* set is an object.
RoundTripWithoutStaleObject ==
  [][(/\ lastOp.op = "setItem" /\ lastOp'.op = "getItem"
      /\ lastOp'.cb = lastOp.cb /\ lastOp'.key = lastOp.key
      /\ JSONSerialisable(lastOp.value)
      /\ LET a == lastOp.cb.owner
         IN \/ IsObject(lastOp.value)
            \/ ~Truthy(Get(adaptors[a].objectCache,
                           getStorageKey(adaptors[a].prefix, lastOp.key))))
     => lastOp'.value = lastOp.value]_vars

====
